---- MODULE Spec2Model ----
(***************************************************************************)
(* Model of bun2nix's package fetcher (src/package/fetcher.rs): the        *)
(* Fetcher enum with its derived equality and template binding, and the    *)
(* npm URL resolution Fetcher::to_npm_url / Fetcher::new_npm_package.      *)
(*                                                                         *)
(* A Rust string is a sequence of one-character strings, so that           *)
(* ends_with, split_once and format! are computed character by character.  *)
(***************************************************************************)
EXTENDS Integers, Sequences, FiniteSets, TLC

VARIABLES ident, registry_path, url_result, pkg_result, lhs, rhs, rendered, eq_result

vars == <<ident, registry_path, url_result, pkg_result, lhs, rhs, rendered, eq_result>>

(***************************************************************************)
(* Bounds                                                                  *)
(***************************************************************************)
MaxIdentLen == 6

MaxRegLen == 2

MaxField == 2

(***************************************************************************)
(* Input alphabets                                                         *)
(***************************************************************************)
IdentChars == {"@", "/", "a"}

RegChars == {"r", "/"}

RegSuffixes == {<<>>, <<".", "t", "g", "z">>, <<"t", "g", "z">>, <<".", "t", "g">>}

Hashes == {<<"h", "1">>, <<"h", "2">>}

Letters == <<"a", "b", "c", "d">>

FieldVals == {<<Letters[i]>> : i \in 1..MaxField}

SeqsUpTo(S, n) == UNION {[1..k -> S] : k \in 0..n}

(***************************************************************************)
(* Option<&str> and Result<T>                                              *)
(***************************************************************************)
None == [some |-> FALSE]

Some(s) == [some |-> TRUE, val |-> s]

Ok(v) == [ok |-> TRUE, val |-> v]

Err(e) == [ok |-> FALSE, err |-> e]

NoAtInPackageIdentifier == "NoAtInPackageIdentifier"

Pending == [pending |-> TRUE]

(***************************************************************************)
(* String primitives used by to_npm_url                                    *)
(***************************************************************************)
DEFAULT_REGISTRY ==
    <<"h", "t", "t", "p", "s", ":", "/", "/",
      "r", "e", "g", "i", "s", "t", "r", "y", ".",
      "n", "p", "m", "j", "s", ".", "o", "r", "g", "/">>

TGZ == <<".", "t", "g", "z">>

is_empty(s) == Len(s) = 0

ends_with(s, suffix) ==
    /\ Len(s) >= Len(suffix)
    /\ SubSeq(s, Len(s) - Len(suffix) + 1, Len(s)) = suffix

\* Index of the first occurrence of character c in s at or after i, 0 if none.
RECURSIVE find(_, _, _)
find(s, c, i) ==
    IF i > Len(s) THEN 0
    ELSE IF s[i] = c THEN i
    ELSE find(s, c, i + 1)

\* split_once with no match, returning the whole string and an empty rest.
split_once_lenient(s, c) ==
    LET i == find(s, c, 1)
    IN  IF i = 0 THEN Some([left |-> s, right |-> <<>>])
        ELSE Some([left |-> SubSeq(s, 1, i - 1), right |-> SubSeq(s, i + 1, Len(s))])

\* str::split_once: None if c does not occur, else the text on both sides
\* of its first occurrence.
split_once(s, c) ==
    LET i == find(s, c, 1)
    IN  IF i = 0 THEN None
        ELSE Some([left |-> SubSeq(s, 1, i - 1), right |-> SubSeq(s, i + 1, Len(s))])

(***************************************************************************)
(* Fetcher::to_npm_url                                                     *)
(***************************************************************************)
\* The tarball test with the emptiness check inverted.
is_full_tarball_url_inverted(path) ==
    /\ path.some
    /\ is_empty(path.val)
    /\ ends_with(path.val, TGZ)

\* "If registry_path is a full tarball URL, use it directly"
is_full_tarball_url(path) ==
    /\ path.some
    /\ ~is_empty(path.val)
    /\ ends_with(path.val, TGZ)

\* The base URL with the slash appended unconditionally.
base_url_always_slash(path) ==
    IF path.some /\ ~is_empty(path.val)
    THEN path.val \o <<"/">>
    ELSE DEFAULT_REGISTRY

\* The base URL without the guard on an empty override.
base_url_no_empty_guard(path) ==
    IF path.some
    THEN IF ends_with(path.val, <<"/">>)
         THEN path.val
         ELSE path.val \o <<"/">>
    ELSE DEFAULT_REGISTRY

\* "Determine the base registry URL"
base_url(path) ==
    IF path.some /\ ~is_empty(path.val)
    THEN IF ends_with(path.val, <<"/">>)
         THEN path.val
         ELSE path.val \o <<"/">>
    ELSE DEFAULT_REGISTRY

\* The unscoped format with the name written once.
unscoped_url_name_once(base, name, ver) ==
    base \o name \o <<"/", "-", "/">> \o <<"-">> \o ver \o TGZ

\* format!("{}{}/-/{}-{}.tgz", base_url, name, name, ver)
unscoped_url(base, name, ver) ==
    base \o name \o <<"/", "-", "/">> \o name \o <<"-">> \o ver \o TGZ

\* The scoped format with the user segment left out.
scoped_url_no_user(base, user, name, ver) ==
    base \o name \o <<"/", "-", "/">> \o name \o <<"-">> \o ver \o TGZ

\* format!("{}{}/{}/-/{}-{}.tgz", base_url, user, name, name, ver)
scoped_url(base, user, name, ver) ==
    base \o user \o <<"/">> \o name \o <<"/", "-", "/">> \o name \o <<"-">> \o ver \o TGZ

\* to_npm_url looking for the `@` in the whole identifier of a scoped package.
to_npm_url_at_in_ident(id, path) ==
    IF is_full_tarball_url(path) THEN Ok(path.val)
    ELSE
        LET base == base_url(path)
            scoped == split_once(id, "/")
            nv == split_once(id, "@")
        IN  IF nv.some
            THEN IF scoped.some
                 THEN Ok(scoped_url(base, scoped.val.left, nv.val.left, nv.val.right))
                 ELSE Ok(unscoped_url(base, nv.val.left, nv.val.right))
            ELSE Err(NoAtInPackageIdentifier)

to_npm_url(id, path) ==
    IF is_full_tarball_url(path) THEN Ok(path.val)
    ELSE
        LET base == base_url(path)
            scoped == split_once(id, "/")
        IN  IF ~scoped.some
            THEN LET nv == split_once(id, "@")
                 IN  IF ~nv.some
                     THEN Err(NoAtInPackageIdentifier)
                     ELSE Ok(unscoped_url(base, nv.val.left, nv.val.right))
            ELSE LET user == scoped.val.left
                     nv == split_once(scoped.val.right, "@")
                 IN  IF ~nv.some
                     THEN Err(NoAtInPackageIdentifier)
                     ELSE Ok(scoped_url(base, user, nv.val.left, nv.val.right))

(***************************************************************************)
(* The Fetcher enum                                                        *)
(***************************************************************************)
Variants == {"FetchUrl", "FetchGit", "FetchGitHub", "FetchTarball", "CopyToStore"}

FetchUrl(url, hash) == [variant |-> "FetchUrl", url |-> url, hash |-> hash]

FetchGit(url, rev, hash) == [variant |-> "FetchGit", url |-> url, rev |-> rev, hash |-> hash]

FetchGitHub(owner, repo, rev, hash) ==
    [variant |-> "FetchGitHub", owner |-> owner, repo |-> repo, rev |-> rev, hash |-> hash]

FetchTarball(url, hash) == [variant |-> "FetchTarball", url |-> url, hash |-> hash]

CopyToStore(path) == [variant |-> "CopyToStore", path |-> path]

\* The named fields of a Fetcher value, without its discriminant.
Fields(f) == [k \in (DOMAIN f) \ {"variant"} |-> f[k]]

\* Every Fetcher whose fields are drawn from the set S.
Fetchers(S) ==
    {FetchUrl(u, h) : u \in S, h \in S}
    \cup {FetchGit(u, r, h) : u \in S, r \in S, h \in S}
    \cup {FetchGitHub(o, p, r, h) : o \in S, p \in S, r \in S, h \in S}
    \cup {FetchTarball(u, h) : u \in S, h \in S}
    \cup {CopyToStore(p) : p \in S}

\* An equality that compares the fields and forgets the discriminant.
fetcher_eq_fields_only(a, b) == Fields(a) = Fields(b)

\* #[derive(PartialEq, Eq)]: same discriminant, then field by field.
fetcher_eq(a, b) ==
    /\ a.variant = b.variant
    /\ CASE a.variant = "FetchUrl" -> a.url = b.url /\ a.hash = b.hash
         [] a.variant = "FetchGit" -> a.url = b.url /\ a.rev = b.rev /\ a.hash = b.hash
         [] a.variant = "FetchGitHub" ->
                a.owner = b.owner /\ a.repo = b.repo /\ a.rev = b.rev /\ a.hash = b.hash
         [] a.variant = "FetchTarball" -> a.url = b.url /\ a.hash = b.hash
         [] a.variant = "CopyToStore" -> a.path = b.path

\* A template binding in which FetchTarball reuses the fetchurl template.
template_path_tarball_as_url(variant) ==
    CASE variant = "FetchUrl" -> "fetchurl.nix_template"
      [] variant = "FetchGit" -> "fetchgit.nix_template"
      [] variant = "FetchGitHub" -> "fetchgithub.nix_template"
      [] variant = "FetchTarball" -> "fetchurl.nix_template"
      [] variant = "CopyToStore" -> "copy-to-store.nix_template"

\* #[template(path = ...)] on each variant.
template_path(variant) ==
    CASE variant = "FetchUrl" -> "fetchurl.nix_template"
      [] variant = "FetchGit" -> "fetchgit.nix_template"
      [] variant = "FetchGitHub" -> "fetchgithub.nix_template"
      [] variant = "FetchTarball" -> "fetchtarball.nix_template"
      [] variant = "CopyToStore" -> "copy-to-store.nix_template"

\* #[derive(Template)]: the variant's template applied to the variant's fields.
render(f) == [template |-> template_path(f.variant), fields |-> Fields(f)]

(***************************************************************************)
(* Fetcher::new_npm_package                                                *)
(***************************************************************************)
\* A constructor that wraps the url as a tarball fetch.
new_npm_package_tarball(id, hash, path) ==
    LET url == to_npm_url(id, path)
    IN  IF url.ok THEN Ok(FetchTarball(url.val, hash)) ELSE Err(url.err)

new_npm_package(id, hash, path) ==
    LET url == to_npm_url(id, path)
    IN  IF url.ok THEN Ok(FetchUrl(url.val, hash)) ELSE Err(url.err)

(***************************************************************************)
(* State machine of URL resolution: the caller holds one lockfile entry    *)
(* (ident, registry_path) and calls to_npm_url and new_npm_package on it.  *)
(***************************************************************************)
Idents == SeqsUpTo(IdentChars, MaxIdentLen)

RegistryPaths ==
    {None} \cup {Some(p \o s) : p \in SeqsUpTo(RegChars, MaxRegLen), s \in RegSuffixes}

DefaultFetcher == CopyToStore(<<"a">>)

Init ==
    /\ ident \in Idents
    /\ registry_path \in RegistryPaths
    /\ url_result = Pending
    /\ pkg_result = Pending
    /\ lhs = DefaultFetcher
    /\ rhs = DefaultFetcher
    /\ rendered = [lhs |-> Pending, rhs |-> Pending]
    /\ eq_result = Pending

ToNpmUrl ==
    /\ url_result = Pending
    /\ url_result' = to_npm_url(ident, registry_path)
    /\ UNCHANGED <<ident, registry_path, pkg_result, lhs, rhs, rendered, eq_result>>

NewNpmPackage ==
    /\ pkg_result = Pending
    /\ \E hash \in Hashes :
           pkg_result' = [hash |-> hash, res |-> new_npm_package(ident, hash, registry_path)]
    /\ UNCHANGED <<ident, registry_path, url_result, lhs, rhs, rendered, eq_result>>

Next == ToNpmUrl \/ NewNpmPackage

Spec == Init /\ [][Next]_vars

(***************************************************************************)
(* State machine of the Fetcher model: two Fetcher values built by the     *)
(* surrounding tool are rendered and compared.                             *)
(***************************************************************************)
InitFetcher ==
    /\ ident = <<>>
    /\ registry_path = None
    /\ url_result = Pending
    /\ pkg_result = Pending
    /\ lhs \in Fetchers(FieldVals)
    /\ rhs \in Fetchers(FieldVals)
    /\ rendered = [lhs |-> Pending, rhs |-> Pending]
    /\ eq_result = Pending

RenderLhs ==
    /\ rendered.lhs = Pending
    /\ rendered' = [rendered EXCEPT !.lhs = render(lhs)]
    /\ UNCHANGED <<ident, registry_path, url_result, pkg_result, lhs, rhs, eq_result>>

RenderRhs ==
    /\ rendered.rhs = Pending
    /\ rendered' = [rendered EXCEPT !.rhs = render(rhs)]
    /\ UNCHANGED <<ident, registry_path, url_result, pkg_result, lhs, rhs, eq_result>>

Compare ==
    /\ eq_result = Pending
    /\ eq_result' = [eq |-> fetcher_eq(lhs, rhs)]
    /\ UNCHANGED <<ident, registry_path, url_result, pkg_result, lhs, rhs, rendered>>

NextFetcher == RenderLhs \/ RenderRhs \/ Compare

SpecFetcher == InitFetcher /\ [][NextFetcher]_vars

(***************************************************************************)
(* Vocabulary of the properties: text before and after the first           *)
(* occurrence of a character, stated by position.                          *)
(***************************************************************************)
Has(s, c) == \E i \in 1..Len(s) : s[i] = c

FirstIdx(s, c) == CHOOSE i \in 1..Len(s) : s[i] = c /\ \A j \in 1..(i - 1) : s[j] # c

Before(s, c) == SubSeq(s, 1, FirstIdx(s, c) - 1)

After(s, c) == SubSeq(s, FirstIdx(s, c) + 1, Len(s))

EndsInTgz(s) ==
    /\ Len(s) >= 4
    /\ s[Len(s) - 3] = "."
    /\ s[Len(s) - 2] = "t"
    /\ s[Len(s) - 1] = "g"
    /\ s[Len(s)] = "z"

TgzOverride == registry_path.some /\ EndsInTgz(registry_path.val)

Unscoped(id) == ~Has(id, "/") /\ Has(id, "@")

Scoped(id) == Has(id, "/") /\ Has(After(id, "/"), "@")

WellFormed(id) == Unscoped(id) \/ Scoped(id)

\* {name}/-/{name}-{ver}.tgz or {user}/{name}/-/{name}-{ver}.tgz
PackagePath(id) ==
    IF Unscoped(id)
    THEN Before(id, "@") \o <<"/", "-", "/">> \o Before(id, "@")
             \o <<"-">> \o After(id, "@") \o <<".", "t", "g", "z">>
    ELSE Before(id, "/") \o <<"/">> \o Before(After(id, "/"), "@") \o <<"/", "-", "/">>
             \o Before(After(id, "/"), "@") \o <<"-">> \o After(After(id, "/"), "@")
             \o <<".", "t", "g", "z">>

Resolved == url_result # Pending

(***************************************************************************)
(* C1: an unscoped identifier name@ver with no registry override resolves  *)
(* to https://registry.npmjs.org/{name}/-/{name}-{ver}.tgz.                *)
(***************************************************************************)
C1_UnscopedDefaultUrl ==
    (Resolved /\ ~registry_path.some /\ Unscoped(ident)) =>
        url_result = Ok(DEFAULT_REGISTRY \o Before(ident, "@") \o <<"/", "-", "/">>
                            \o Before(ident, "@") \o <<"-">> \o After(ident, "@")
                            \o <<".", "t", "g", "z">>)

C1_Witness ==
    /\ Resolved /\ url_result.ok
    /\ ~registry_path.some
    /\ Unscoped(ident)
    /\ Len(Before(ident, "@")) > 0
    /\ Len(After(ident, "@")) > 0

(***************************************************************************)
(* C2: a scoped identifier @scope/name@ver with no registry override       *)
(* resolves to https://registry.npmjs.org/@scope/name/-/name-{ver}.tgz.    *)
(***************************************************************************)
AtScoped(id) == Len(id) > 0 /\ id[1] = "@" /\ Scoped(id)

C2_ScopedDefaultUrl ==
    (Resolved /\ ~registry_path.some /\ AtScoped(ident)) =>
        url_result = Ok(DEFAULT_REGISTRY \o Before(ident, "/") \o <<"/">>
                            \o Before(After(ident, "/"), "@") \o <<"/", "-", "/">>
                            \o Before(After(ident, "/"), "@") \o <<"-">>
                            \o After(After(ident, "/"), "@") \o <<".", "t", "g", "z">>)

C2_Witness ==
    /\ Resolved /\ url_result.ok
    /\ ~registry_path.some
    /\ AtScoped(ident)
    /\ Len(Before(ident, "/")) > 1
    /\ Len(Before(After(ident, "/"), "@")) > 0
    /\ Len(After(After(ident, "/"), "@")) > 0

(***************************************************************************)
(* C3: an override ending in .tgz is returned unchanged for every ident,   *)
(* malformed ones included; the identifier-format error never occurs.      *)
(***************************************************************************)
C3_TgzOverrideVerbatim ==
    (Resolved /\ TgzOverride) => url_result = Ok(registry_path.val)

C3_Witness ==
    /\ Resolved /\ TgzOverride
    /\ ~Has(ident, "@")
    /\ url_result.ok /\ url_result.val = registry_path.val

(***************************************************************************)
(* C4: for a non-empty override p not ending in .tgz and a well-formed     *)
(* ident, the URL is b followed by the package path, where b is p when p   *)
(* ends with `/` and p plus exactly one `/` otherwise.                     *)
(***************************************************************************)
BaseOverride ==
    /\ registry_path.some
    /\ Len(registry_path.val) > 0
    /\ ~EndsInTgz(registry_path.val)

ExpectedBase(p) == IF p[Len(p)] = "/" THEN p ELSE p \o <<"/">>

C4_OverrideBaseOneSlash ==
    (Resolved /\ BaseOverride /\ WellFormed(ident)) =>
        url_result = Ok(ExpectedBase(registry_path.val) \o PackagePath(ident))

C4_Witness ==
    /\ Resolved /\ BaseOverride /\ WellFormed(ident)
    /\ registry_path.val[Len(registry_path.val)] = "/"
    /\ url_result.ok
    /\ SubSeq(url_result.val, 1, Len(registry_path.val)) = registry_path.val
    /\ Len(Before(ident, "@")) > 0

(***************************************************************************)
(* C5: an ident with no `@` anywhere, under any registry_path that is not  *)
(* a .tgz override, fails with NoAtInPackageIdentifier and yields no URL.  *)
(***************************************************************************)
C5_NoAtFails ==
    (Resolved /\ ~TgzOverride /\ ~Has(ident, "@")) =>
        url_result = Err("NoAtInPackageIdentifier")

C5_Witness ==
    /\ Resolved /\ ~TgzOverride
    /\ ~Has(ident, "@") /\ Has(ident, "/")
    /\ ~url_result.ok

(***************************************************************************)
(* C6: new_npm_package returns FetchUrl { url, hash } with the url of      *)
(* to_npm_url and the caller's hash when to_npm_url succeeds, and the same *)
(* error, with no Fetcher, when it fails.                                  *)
(***************************************************************************)
Built == pkg_result # Pending

C6_NewNpmPackageWraps ==
    (Resolved /\ Built) =>
        IF url_result.ok
        THEN pkg_result.res =
                 Ok([variant |-> "FetchUrl", url |-> url_result.val, hash |-> pkg_result.hash])
        ELSE pkg_result.res = Err(url_result.err)

C6_Witness ==
    /\ Resolved /\ Built
    /\ url_result.ok /\ pkg_result.res.ok
    /\ pkg_result.res.val.hash = pkg_result.hash
    /\ WellFormed(ident)

(***************************************************************************)
(* C7: an empty override is treated as absent: to_npm_url(ident, Some("")) *)
(* has the outcome of to_npm_url(ident, None), a URL on the default        *)
(* registry or the same error.                                             *)
(***************************************************************************)
EmptyOverride == registry_path.some /\ Len(registry_path.val) = 0

C7_EmptyOverrideIsAbsent ==
    (Resolved /\ EmptyOverride) =>
        /\ url_result = to_npm_url(ident, None)
        /\ url_result =
               IF WellFormed(ident)
               THEN Ok(DEFAULT_REGISTRY \o PackagePath(ident))
               ELSE Err("NoAtInPackageIdentifier")

C7_Witness ==
    /\ Resolved /\ EmptyOverride
    /\ url_result.ok
    /\ SubSeq(url_result.val, 1, Len(DEFAULT_REGISTRY)) = DEFAULT_REGISTRY

(***************************************************************************)
(* C8: rendering is total and variant-specific: each of the five variants  *)
(* renders through one of five templates, and two Fetchers render through  *)
(* the same template exactly when they are the same variant.               *)
(***************************************************************************)
Templates ==
    {"fetchurl.nix_template", "fetchgit.nix_template", "fetchgithub.nix_template",
     "fetchtarball.nix_template", "copy-to-store.nix_template"}

C8_OneTemplatePerVariant ==
    /\ rendered.lhs # Pending => rendered.lhs.template \in Templates
    /\ rendered.rhs # Pending => rendered.rhs.template \in Templates
    /\ (rendered.lhs # Pending /\ rendered.rhs # Pending) =>
           (rendered.lhs.template = rendered.rhs.template <=> lhs.variant = rhs.variant)

C8_Witness ==
    /\ rendered.lhs # Pending /\ rendered.rhs # Pending
    /\ lhs.variant = "FetchUrl" /\ rhs.variant = "FetchTarball"
    /\ Fields(lhs) = Fields(rhs)
    /\ rendered.lhs.template # rendered.rhs.template

(***************************************************************************)
(* C9 as stated: two Fetcher values of any variants compare equal if and   *)
(* only if all their fields are equal.                                     *)
(***************************************************************************)
Compared == eq_result # Pending

C9_EqualIffFieldsEqual ==
    Compared => (eq_result.eq <=> Fields(lhs) = Fields(rhs))

(***************************************************************************)
(* C9 as amended: two Fetcher values compare equal if and only if they     *)
(* are the same variant and all their fields are equal.                    *)
(***************************************************************************)
C9_EqualIffVariantAndFieldsEqual ==
    Compared => (eq_result.eq <=> (lhs.variant = rhs.variant /\ Fields(lhs) = Fields(rhs)))

C9_Witness ==
    /\ Compared
    /\ lhs.variant # rhs.variant
    /\ Fields(lhs) = Fields(rhs)
    /\ ~eq_result.eq

(***************************************************************************)
(* C10: when the override is not .tgz-terminated, to_npm_url fails, with   *)
(* NoAtInPackageIdentifier, exactly when ident has no `/` and no `@`, or   *)
(* has a `/` and no `@` after its first `/`; otherwise it returns a URL.   *)
(***************************************************************************)
MissingSeparator(id) ==
    \/ ~Has(id, "/") /\ ~Has(id, "@")
    \/ Has(id, "/") /\ ~Has(After(id, "/"), "@")

C10_FailsExactlyOnMissingSeparator ==
    (Resolved /\ ~TgzOverride) =>
        IF MissingSeparator(ident)
        THEN url_result = Err("NoAtInPackageIdentifier")
        ELSE url_result.ok

C10_Witness ==
    /\ Resolved /\ ~TgzOverride
    /\ Has(ident, "/") /\ Has(Before(ident, "/"), "@") /\ ~Has(After(ident, "/"), "@")
    /\ url_result = Err("NoAtInPackageIdentifier")

====
